---- MODULE Spec2Model ----
(***************************************************************************)
(* ElGamal over the bn curve group G1 with the Fiat-Shamir proof of        *)
(* correct decryption, and the hex exchange format of a public key         *)
(* (src/src/public.rs).                                                    *)
(*                                                                         *)
(* The pairing library `bn` is an external crate.  Its curve               *)
(* y^2 = x^3 + 3 with generator (1, 2) is kept, over the field F_7         *)
(* instead of the 254-bit field: that curve has 13 points, a group of      *)
(* prime order like G1.  A G1 value is a Jacobian triple kept normalised:  *)
(* (0, 1, 0) is the identity, (x, y, 1) every other point.                 *)
(***************************************************************************)
EXTENDS Integers, Sequences, FiniteSets, TLC

(***************************************************************************)
(* Bounds of the model                                                     *)
(***************************************************************************)
\* Scalars an operation draws (secret keys, randomness, factors): 0 .. MaxScalar
MaxScalar == 4

\* Points an operation is handed: generator * i for i in 0 .. MaxPointIndex
MaxPointIndex == 2

\* Digests the hash answers with: 0 .. MaxDigest and the group order itself
MaxDigest == 2

\* Calls of the verifier on the same arguments
MaxVerifyCalls == 2

\* Coordinates handed to from_hex_string: 0 .. MaxCoordinate
MaxCoordinate == 7

(***************************************************************************)
(* bn: the base field Fq, the curve group G1 and the scalar field Fr       *)
(***************************************************************************)
FieldModulus == 7

CurveB == 3

Fq == 0 .. (FieldModulus - 1)

FqMod(a) == ((a % FieldModulus) + FieldModulus) % FieldModulus

FqInv(a) == CHOOSE b \in Fq : FqMod(a * b) = 1

OnCurve(x, y) == FqMod(y * y) = FqMod(x * x * x + CurveB)

\* G1::zero()
G1Zero == [x |-> 0, y |-> 1, z |-> 0]

\* G1::one(), the generator
G1One == [x |-> 1, y |-> 2, z |-> 1]

G1 ==
  {G1Zero} \cup {[x |-> c[1], y |-> c[2], z |-> 1] :
                   c \in {d \in Fq \X Fq : OnCurve(d[1], d[2])}}

G1Neg(p) == IF p.z = 0 THEN p ELSE [p EXCEPT !.y = FqMod(0 - p.y)]

\* the slope of the chord through p and q (of the tangent when p = q)
G1Slope(p, q) ==
  IF p = q
    THEN FqMod(3 * p.x * p.x * FqInv(FqMod(2 * p.y)))
    ELSE FqMod((q.y - p.y) * FqInv(FqMod(q.x - p.x)))

G1Add(p, q) ==
  IF p.z = 0 THEN q
  ELSE IF q.z = 0 THEN p
  ELSE IF p.x = q.x /\ FqMod(p.y + q.y) = 0 THEN G1Zero
  ELSE LET l  == G1Slope(p, q)
           x3 == FqMod(l * l - p.x - q.x)
       IN  [x |-> x3, y |-> FqMod(l * (p.x - x3) - p.y), z |-> 1]

G1Sub(p, q) == G1Add(p, G1Neg(q))

\* the number of points: the order of the group, and the modulus of Fr
GroupOrder == Cardinality(G1)

Fr == 0 .. (GroupOrder - 1)

FrAdd(a, b) == (a + b) % GroupOrder

FrMul(a, b) == (a * b) % GroupOrder

RECURSIVE G1MulRec(_, _)
G1MulRec(p, s) == IF s = 0 THEN G1Zero ELSE G1Add(G1MulRec(p, s - 1), p)

G1MulTable == [p \in G1 |-> [s \in Fr |-> G1MulRec(p, s)]]

\* point * scalar
G1Mul(p, s) == G1MulTable[p][s]

\* AffineG1::from_jacobian: None for the identity, else the affine pair
AffineNone == <<>>

from_jacobian(p) == IF p.z = 0 THEN AffineNone ELSE <<p.x, p.y>>

(***************************************************************************)
(* Inputs                                                                  *)
(***************************************************************************)
ScalarInputs == 0 .. MaxScalar

PointInputs == {G1Mul(G1One, i) : i \in 0 .. MaxPointIndex}

\* what Keccak256 may answer, as an integer: small digests, and one that
\* Fr::from_slice has to reduce
DigestInputs == (0 .. MaxDigest) \cup {GroupOrder}

(***************************************************************************)
(* Keys, encryption, decryption, ciphertext algebra                        *)
(***************************************************************************)
\* PublicKey::from(&SecretKey): generator * secret scalar
PublicKeyFromSecret(secret) == G1Mul(G1One, secret)

\* encrypt masking with the generator instead of the public key
encrypt_masked_by_generator(self, message, random) ==
  LET random_generator    == G1Mul(G1One, random)
      encrypted_plaintext == G1Add(message, G1Mul(G1One, random))
  IN  [pk |-> self, points |-> <<random_generator, encrypted_plaintext>>]

\* encrypt publishing the generator instead of generator * random
encrypt_fixed_ephemeral(self, message, random) ==
  LET random_generator    == G1One
      encrypted_plaintext == G1Add(message, G1Mul(self, random))
  IN  [pk |-> self, points |-> <<random_generator, encrypted_plaintext>>]

\* encrypt subtracting the mask instead of adding it
encrypt_mask_subtracted(self, message, random) ==
  LET random_generator    == G1Mul(G1One, random)
      encrypted_plaintext == G1Sub(message, G1Mul(self, random))
  IN  [pk |-> self, points |-> <<random_generator, encrypted_plaintext>>]

\* PublicKey::encrypt, `random` being the scalar drawn from thread_rng
encrypt(self, message, random) ==
  LET random_generator    == G1Mul(G1One, random)
      encrypted_plaintext == G1Add(message, G1Mul(self, random))
  IN  [pk |-> self, points |-> <<random_generator, encrypted_plaintext>>]

\* SecretKey::decrypt
decrypt(secret, ciphertext) ==
  G1Sub(ciphertext.points[2], G1Mul(ciphertext.points[1], secret))

\* Ciphertext + Ciphertext
CiphertextAdd(a, b) ==
  [pk |-> a.pk,
   points |-> <<G1Add(a.points[1], b.points[1]), G1Add(a.points[2], b.points[2])>>]

\* Ciphertext * Fr
CiphertextMul(a, c) ==
  [pk |-> a.pk, points |-> <<G1Mul(a.points[1], c), G1Mul(a.points[2], c)>>]


(***************************************************************************)
(* The proof of correct decryption                                         *)
(***************************************************************************)
\* bincode's encoding of an AffineG1: its coordinates, x then y
encode_affine(a) == a

\* Keccak256::new().chain(b1).chain(b2)...: the hash input is the
\* concatenation of the chained byte strings
RECURSIVE chain(_)
chain(parts) == IF parts = <<>> THEN <<>> ELSE parts[1] \o chain(Tail(parts))

\* Fr::from_slice: the digest as an integer, reduced into the scalar field
Fr_from_slice(digest) == digest % GroupOrder

ConversionFails(affines) == \E i \in 1 .. Len(affines) : affines[i] = AffineNone

\* the conversions with the public key hashed before the generator
verify_affines_key_before_generator(self, proof, ciphertext, message) ==
  LET announcement_base_G      == proof[1][1]
      announcement_base_ctxtp0 == proof[1][2]
  IN  << from_jacobian(message),
         from_jacobian(ciphertext.points[1]),
         from_jacobian(ciphertext.points[2]),
         from_jacobian(announcement_base_G),
         from_jacobian(announcement_base_ctxtp0),
         from_jacobian(self),
         from_jacobian(G1One) >>

\* the seven from_jacobian conversions of the verifier, in the order made
verify_affines(self, proof, ciphertext, message) ==
  LET announcement_base_G      == proof[1][1]
      announcement_base_ctxtp0 == proof[1][2]
  IN  << from_jacobian(message),
         from_jacobian(ciphertext.points[1]),
         from_jacobian(ciphertext.points[2]),
         from_jacobian(announcement_base_G),
         from_jacobian(announcement_base_ctxtp0),
         from_jacobian(G1One),
         from_jacobian(self) >>

\* what the verifier feeds Keccak256
verify_hash_input(self, proof, ciphertext, message) ==
  chain([i \in 1 .. 7 |->
           encode_affine(verify_affines(self, proof, ciphertext, message)[i])])

\* the verifier with the second equation on the masked point itself, the
\* message not subtracted
verify_message_not_subtracted(self, proof, ciphertext, message, digest) ==
  LET announcement_base_G      == proof[1][1]
      announcement_base_ctxtp0 == proof[1][2]
      response                 == proof[2]
  IN  IF ConversionFails(verify_affines(self, proof, ciphertext, message))
        THEN "AffineConversionFailure"
        ELSE LET challenge == Fr_from_slice(digest)
             IN  IF ~(/\ G1Mul(G1One, response)
                           = G1Add(announcement_base_G, G1Mul(self, challenge))
                      /\ G1Mul(ciphertext.points[1], response)
                           = G1Add(announcement_base_ctxtp0,
                                   G1Mul(ciphertext.points[2], challenge)))
                   THEN "VerificationError"
                   ELSE "Ok"

\* the verifier checking the public-key equation alone
verify_key_equation_only(self, proof, ciphertext, message, digest) ==
  LET announcement_base_G == proof[1][1]
      response            == proof[2]
  IN  IF ConversionFails(verify_affines(self, proof, ciphertext, message))
        THEN "AffineConversionFailure"
        ELSE LET challenge == Fr_from_slice(digest)
             IN  IF ~(G1Mul(G1One, response)
                        = G1Add(announcement_base_G, G1Mul(self, challenge)))
                   THEN "VerificationError"
                   ELSE "Ok"

\* the verifier checking the ciphertext equation alone
verify_ciphertext_equation_only(self, proof, ciphertext, message, digest) ==
  LET announcement_base_ctxtp0 == proof[1][2]
      response                 == proof[2]
  IN  IF ConversionFails(verify_affines(self, proof, ciphertext, message))
        THEN "AffineConversionFailure"
        ELSE LET challenge == Fr_from_slice(digest)
             IN  IF ~(G1Mul(ciphertext.points[1], response)
                        = G1Add(announcement_base_ctxtp0,
                                G1Mul(G1Sub(ciphertext.points[2], message),
                                      challenge)))
                   THEN "VerificationError"
                   ELSE "Ok"

\* PublicKey::verify_correct_decryption_no_Merlin, `digest` being what
\* Keccak256 answers for verify_hash_input
verify_correct_decryption_no_Merlin(self, proof, ciphertext, message, digest) ==
  LET announcement_base_G      == proof[1][1]
      announcement_base_ctxtp0 == proof[1][2]
      response                 == proof[2]
  IN  IF ConversionFails(verify_affines(self, proof, ciphertext, message))
        THEN "AffineConversionFailure"
        ELSE LET challenge == Fr_from_slice(digest)
             IN  IF ~(/\ G1Mul(G1One, response)
                           = G1Add(announcement_base_G, G1Mul(self, challenge))
                      /\ G1Mul(ciphertext.points[1], response)
                           = G1Add(announcement_base_ctxtp0,
                                   G1Mul(G1Sub(ciphertext.points[2], message),
                                         challenge)))
                   THEN "VerificationError"
                   ELSE "Ok"

\* SecretKey::prove_correct_decryption_no_Merlin: the announcements for the
\* blinding scalar k
prove_announcements(ciphertext, k) ==
  <<G1Mul(G1One, k), G1Mul(ciphertext.points[1], k)>>

\* what the prover feeds Keccak256
prove_affines(secret, ciphertext, message, k) ==
  << from_jacobian(message),
     from_jacobian(ciphertext.points[1]),
     from_jacobian(ciphertext.points[2]),
     from_jacobian(prove_announcements(ciphertext, k)[1]),
     from_jacobian(prove_announcements(ciphertext, k)[2]),
     from_jacobian(G1One),
     from_jacobian(PublicKeyFromSecret(secret)) >>

prove_hash_input(secret, ciphertext, message, k) ==
  chain([i \in 1 .. 7 |->
           encode_affine(prove_affines(secret, ciphertext, message, k)[i])])

NoProof == <<<<G1Zero, G1Zero>>, 0>>

\* SecretKey::prove_correct_decryption_no_Merlin, `digest` being what
\* Keccak256 answers for prove_hash_input
prove_correct_decryption_no_Merlin(secret, ciphertext, message, k, digest) ==
  IF ConversionFails(prove_affines(secret, ciphertext, message, k))
    THEN [kind |-> "Err", error |-> "AffineConversionFailure", value |-> NoProof]
    ELSE LET challenge == Fr_from_slice(digest)
             response  == FrAdd(k, FrMul(challenge, secret))
         IN  [kind |-> "Ok", error |-> "",
              value |-> <<prove_announcements(ciphertext, k), response>>]

(***************************************************************************)
(* The hex exchange format.  A string is a sequence of characters.         *)
(***************************************************************************)
HexChars == <<"0", "1", "2", "3", "4", "5", "6", "7",
              "8", "9", "a", "b", "c", "d", "e", "f">>

UpperHexChars == <<"0", "1", "2", "3", "4", "5", "6", "7",
                   "8", "9", "A", "B", "C", "D", "E", "F">>

\* the string "0x"
Prefix0x == <<"0", "x">>

\* the string "04"
Tag04 == <<"0", "4">>

\* a result of an operation: Ok(value), Err(error), or a panic
Ok(v) == [kind |-> "Ok", value |-> v, error |-> ""]

Err(e) == [kind |-> "Err", value |-> <<>>, error |-> e]

Panic(e) == [kind |-> "Panic", value |-> <<>>, error |-> e]

\* the big-endian bytes of v, n of them
RECURSIVE BEBytes(_, _)
BEBytes(v, n) == IF n = 0 THEN <<>> ELSE Append(BEBytes(v \div 256, n - 1), v % 256)

\* the integer of big-endian bytes, saturating at cap
RECURSIVE BEValue(_, _)
BEValue(bytes, cap) ==
  IF bytes = <<>> THEN 0
  ELSE LET hi == BEValue(SubSeq(bytes, 1, Len(bytes) - 1), cap)
           v  == hi * 256 + bytes[Len(bytes)]
       IN  IF hi >= cap \/ v >= cap THEN cap ELSE v

\* ToHex::to_hex: two lower-case digits a byte
RECURSIVE to_hex(_)
to_hex(bytes) ==
  IF bytes = <<>> THEN <<>>
  ELSE <<HexChars[(bytes[1] \div 16) + 1], HexChars[(bytes[1] % 16) + 1]>>
         \o to_hex(Tail(bytes))

IsHexChar(c) ==
  \E i \in 1 .. 16 : HexChars[i] = c \/ UpperHexChars[i] = c

HexValue(c) == (CHOOSE i \in 1 .. 16 : HexChars[i] = c \/ UpperHexChars[i] = c) - 1

\* FromHex::from_hex: the bytes of a string of hex digits
RECURSIVE hex_bytes(_)
hex_bytes(s) ==
  IF Len(s) < 2 THEN <<>>
  ELSE <<HexValue(s[1]) * 16 + HexValue(s[2])>> \o hex_bytes(SubSeq(s, 3, Len(s)))

str_from_hex(s) ==
  IF \E i \in 1 .. Len(s) : ~IsHexChar(s[i]) THEN Err("FromHexError")
  ELSE IF Len(s) % 2 # 0 THEN Err("FromHexError")
  ELSE Ok(hex_bytes(s))

\* bn's encoding of a G1: the byte 0 for the identity, else the byte 4 and the
\* affine coordinates, 32 bytes each
encode_G1(point) ==
  IF point.z = 0 THEN <<0>>
  ELSE <<4>> \o BEBytes(point.x, 32) \o BEBytes(point.y, 32)

\* bn's decoding of a G1
decode_G1(bytes) ==
  IF Len(bytes) < 1 THEN Err("DecodingError")
  ELSE IF bytes[1] = 0 THEN Ok(G1Zero)
  ELSE IF bytes[1] # 4 \/ Len(bytes) < 65 THEN Err("DecodingError")
  ELSE LET x == BEValue(SubSeq(bytes, 2, 33), FieldModulus)
           y == BEValue(SubSeq(bytes, 34, 65), FieldModulus)
       IN  IF x >= FieldModulus \/ y >= FieldModulus THEN Err("DecodingError")
           ELSE IF ~OnCurve(x, y) THEN Err("DecodingError")
           ELSE Ok([x |-> x, y |-> y, z |-> 1])

\* into_hex::<G1>: Some(hex of the encoding)
into_hex(point) == to_hex(encode_G1(point))

\* from_hex::<G1>
from_hex(s) ==
  LET bytes == str_from_hex(s)
  IN  IF bytes.kind # "Ok" THEN bytes ELSE decode_G1(bytes.value)

\* get_point_as_hex_str with the y slice taken one character late
get_point_as_hex_str_y_from_67(point) ==
  LET hex_point == into_hex(point)
  IN  IF Len(hex_point) < 67 THEN Panic("slice index out of range")
      ELSE Ok(<< Prefix0x \o SubSeq(hex_point, 3, 66),
                 Prefix0x \o SubSeq(hex_point, 68, Len(hex_point)) >>)

\* get_point_as_hex_str: the slices [2..66] and [66..] of the hex string
get_point_as_hex_str(point) ==
  LET hex_point == into_hex(point)
  IN  IF Len(hex_point) < 66 THEN Panic("slice index out of range")
      ELSE Ok(<< Prefix0x \o SubSeq(hex_point, 3, 66),
                 Prefix0x \o SubSeq(hex_point, 67, Len(hex_point)) >>)

\* PublicKey::get_point_hex_string
get_point_hex_string(self) == get_point_as_hex_str(self)

\* PublicKey::get_point_affine: from_jacobian(..).unwrap()
get_point_affine(self) ==
  IF from_jacobian(self) = AffineNone
    THEN Panic("unwrap on None")
    ELSE Ok(from_jacobian(self))

\* PublicKey::from_hex_string
from_hex_string(hex_coords) ==
  IF Len(hex_coords[1]) < 2 THEN Panic("slice index out of range")
  ELSE IF SubSeq(hex_coords[1], 1, 2) # Prefix0x THEN Err("IncorrectHexString")
  ELSE IF Len(hex_coords[2]) < 2 THEN Panic("slice index out of range")
  ELSE IF SubSeq(hex_coords[2], 1, 2) # Prefix0x THEN Err("IncorrectHexString")
  ELSE IF Len(hex_coords[1]) # 66 \/ Len(hex_coords[2]) # 66
    THEN Err("InvalidHexLength")
  ELSE LET combined_string ==
             Tag04 \o SubSeq(hex_coords[1], 3, Len(hex_coords[1]))
                   \o SubSeq(hex_coords[2], 3, Len(hex_coords[2]))
       IN  from_hex(combined_string)

\* the strings handed to from_hex_string: coordinates in the exchange format
\* (one of them not below the field modulus) and malformed ones
HexCoordinate(v) == Prefix0x \o to_hex(BEBytes(v, 32))

HexInputs ==
  {HexCoordinate(v) : v \in 0 .. MaxCoordinate}
    \cup { <<>>,
           <<"0">>,
           Prefix0x,
           to_hex(BEBytes(1, 32)),
           SubSeq(HexCoordinate(1), 1, 65),
           HexCoordinate(1) \o <<"0">>,
           <<"0", "X">> \o to_hex(BEBytes(1, 32)),
           SubSeq(HexCoordinate(1), 1, 65) \o <<"g">> }

(***************************************************************************)
(* State                                                                   *)
(***************************************************************************)
VARIABLES
  pc,         \* where the caller is
  sk,         \* the secret scalar of the key pair
  pk,         \* the point of the PublicKey
  ptxt1,      \* the plaintexts encrypted
  ptxt2,
  ctxt1,      \* their ciphertexts
  ctxt2,
  scalar,     \* the scalar a ciphertext was multiplied by
  op,         \* how `combined` was made: "none", "add", "mul"
  combined,   \* the combined ciphertext
  decrypted,  \* what decrypt returned
  proof,      \* what prove_correct_decryption_no_Merlin returned
  oracle,     \* Keccak256 so far: hash input |-> digest
  vargs,      \* the arguments of verify_correct_decryption_no_Merlin
  vresults,   \* what it returned, call after call
  hexStr,     \* what get_point_hex_string returned
  affine,     \* what get_point_affine returned
  hexIn,      \* the argument of from_hex_string
  parsed      \* what from_hex_string returned

keyVars == <<sk, pk>>

elgamalVars == <<ptxt1, ptxt2, ctxt1, ctxt2, scalar, op, combined, decrypted>>

proofVars == <<proof, oracle, vargs, vresults>>

hexVars == <<hexStr, affine, hexIn, parsed>>

vars == <<pc, keyVars, elgamalVars, proofVars, hexVars>>

NoCiphertext == [pk |-> G1Zero, points |-> <<G1Zero, G1Zero>>]

NoResult == [kind |-> "None", value |-> <<>>, error |-> ""]

NoArgs ==
  [pk |-> G1Zero, proof |-> NoProof, ciphertext |-> NoCiphertext, message |-> G1Zero]

NoOracle == [t \in {} |-> 0]

KeysIdle == sk = 0 /\ pk = G1Zero

ElGamalIdle ==
  /\ ptxt1 = G1Zero
  /\ ptxt2 = G1Zero
  /\ ctxt1 = NoCiphertext
  /\ ctxt2 = NoCiphertext
  /\ scalar = 0
  /\ op = "none"
  /\ combined = NoCiphertext
  /\ decrypted = G1Zero

ProofIdle ==
  /\ proof = NoResult
  /\ oracle = NoOracle
  /\ vargs = NoArgs
  /\ vresults = <<>>

HexIdle ==
  /\ hexStr = NoResult
  /\ affine = NoResult
  /\ hexIn = <<>>
  /\ parsed = NoResult

Init ==
  /\ pc = "start"
  /\ KeysIdle
  /\ ElGamalIdle
  /\ ProofIdle
  /\ HexIdle

(***************************************************************************)
(* Encryption and the ciphertext algebra                                   *)
(***************************************************************************)
\* SecretKey::new and PublicKey::from(&sk)
KeyGen ==
  /\ pc = "start"
  /\ \E secret \in ScalarInputs :
       /\ sk' = secret
       /\ pk' = PublicKeyFromSecret(secret)
  /\ pc' = "keyed"
  /\ UNCHANGED <<elgamalVars, proofVars, hexVars>>

\* pk.encrypt(&ptxt1)
Encrypt1 ==
  /\ pc = "keyed"
  /\ \E message \in PointInputs, random \in ScalarInputs :
       /\ ptxt1' = message
       /\ ctxt1' = encrypt(pk, message, random)
  /\ pc' = "enc1"
  /\ UNCHANGED <<keyVars, ptxt2, ctxt2, scalar, op, combined, decrypted,
                 proofVars, hexVars>>

\* pk.encrypt(&ptxt2)
Encrypt2 ==
  /\ pc = "enc1"
  /\ \E message \in PointInputs, random \in ScalarInputs :
       /\ ptxt2' = message
       /\ ctxt2' = encrypt(pk, message, random)
  /\ pc' = "enc2"
  /\ UNCHANGED <<keyVars, ptxt1, ctxt1, scalar, op, combined, decrypted,
                 proofVars, hexVars>>

\* ctxt1 + ctxt2
AddCiphertexts ==
  /\ pc = "enc2"
  /\ combined' = CiphertextAdd(ctxt1, ctxt2)
  /\ op' = "add"
  /\ pc' = "combined"
  /\ UNCHANGED <<keyVars, ptxt1, ptxt2, ctxt1, ctxt2, scalar, decrypted,
                 proofVars, hexVars>>

\* ctxt1 * scalar_mult
MulCiphertext ==
  /\ pc = "enc1"
  /\ \E c \in ScalarInputs :
       /\ scalar' = c
       /\ combined' = CiphertextMul(ctxt1, c)
  /\ op' = "mul"
  /\ pc' = "combined"
  /\ UNCHANGED <<keyVars, ptxt1, ptxt2, ctxt1, ctxt2, decrypted,
                 proofVars, hexVars>>

\* the ciphertext the caller holds now
Held == IF pc = "enc1" THEN ctxt1 ELSE combined

\* sk.decrypt(&ciphertext)
Decrypt ==
  /\ pc \in {"enc1", "combined"}
  /\ decrypted' = decrypt(sk, Held)
  /\ combined' = Held
  /\ pc' = "done"
  /\ UNCHANGED <<keyVars, ptxt1, ptxt2, ctxt1, ctxt2, scalar, op,
                 proofVars, hexVars>>

Next ==
  \/ KeyGen
  \/ Encrypt1
  \/ Encrypt2
  \/ AddCiphertexts
  \/ MulCiphertext
  \/ Decrypt

Spec == Init /\ [][Next]_vars

(***************************************************************************)
(* Proving and verifying a decryption                                      *)
(***************************************************************************)
\* Keccak256 of `input` answers `digest`: the digest it answered before for
\* the same input, any digest for an input not hashed yet
Keccak256(input, digest) ==
  /\ input \in DOMAIN oracle => digest = oracle[input]
  /\ oracle' = [t \in DOMAIN oracle \cup {input} |->
                  IF t = input THEN digest ELSE oracle[t]]

\* a ciphertext made of any two points, under pk
ReceiveCiphertext ==
  /\ pc = "keyed"
  /\ \E c0, c1 \in PointInputs :
       ctxt1' = [pk |-> pk, points |-> <<c0, c1>>]
  /\ pc' = "enc1"
  /\ UNCHANGED <<keyVars, ptxt1, ptxt2, ctxt2, scalar, op, combined, decrypted,
                 proofVars, hexVars>>

\* sk.prove_correct_decryption_no_Merlin(&ciphertext, &decryption)
Prove ==
  /\ pc = "done"
  /\ \E k \in ScalarInputs, digest \in DigestInputs :
       /\ IF ConversionFails(prove_affines(sk, combined, decrypted, k))
            THEN oracle' = oracle
            ELSE Keccak256(prove_hash_input(sk, combined, decrypted, k), digest)
       /\ proof' = prove_correct_decryption_no_Merlin(sk, combined, decrypted,
                                                      k, digest)
  /\ pc' = "proved"
  /\ UNCHANGED <<keyVars, elgamalVars, vargs, vresults, hexVars>>

\* one call self.verify_correct_decryption_no_Merlin(proof, ciphertext, message)
VerifyCall(args, digest) ==
  /\ IF ConversionFails(verify_affines(args.pk, args.proof, args.ciphertext,
                                       args.message))
       THEN oracle' = oracle
       ELSE Keccak256(verify_hash_input(args.pk, args.proof, args.ciphertext,
                                        args.message), digest)
  /\ vargs' = args
  /\ vresults' = Append(vresults,
                        verify_correct_decryption_no_Merlin(
                          args.pk, args.proof, args.ciphertext, args.message,
                          digest))

\* the verifier is handed the proof and the ciphertext, with the public key
\* and the decryption, or with another key, or with another plaintext
Verify ==
  /\ pc = "proved"
  /\ proof.kind = "Ok"
  /\ \E secret \in ScalarInputs, message \in PointInputs \cup {decrypted},
        digest \in DigestInputs :
       /\ PublicKeyFromSecret(secret) = pk \/ message = decrypted
       /\ VerifyCall([pk |-> PublicKeyFromSecret(secret), proof |-> proof.value,
                      ciphertext |-> combined, message |-> message], digest)
  /\ pc' = "verified"
  /\ UNCHANGED <<keyVars, elgamalVars, proof, hexVars>>

NextProof ==
  \/ KeyGen
  \/ Encrypt1
  \/ ReceiveCiphertext
  \/ Decrypt
  \/ Prove
  \/ Verify

SpecProof == Init /\ [][NextProof]_vars

\* the verifier alone, on any arguments
InitVerify ==
  /\ pc = "call"
  /\ KeysIdle
  /\ ElGamalIdle
  /\ HexIdle
  /\ proof = NoResult
  /\ oracle = NoOracle
  /\ vresults = <<>>
  /\ \E self, message, c0, c1, a1, a2 \in PointInputs, response \in ScalarInputs :
       vargs = [pk |-> self, proof |-> <<<<a1, a2>>, response>>,
                ciphertext |-> [pk |-> self, points |-> <<c0, c1>>],
                message |-> message]

VerifyAgain ==
  /\ pc = "call"
  /\ Len(vresults) < MaxVerifyCalls
  /\ \E digest \in DigestInputs : VerifyCall(vargs, digest)
  /\ UNCHANGED <<pc, keyVars, elgamalVars, proof, hexVars>>

NextVerify == VerifyAgain

SpecVerify == InitVerify /\ [][NextVerify]_vars

(***************************************************************************)
(* The hex exchange format of a public key                                 *)
(***************************************************************************)
\* PublicKey::from(point)
FromPoint ==
  /\ pc = "start"
  /\ \E point \in G1 : pk' = point
  /\ pc' = "haskey"
  /\ UNCHANGED <<sk, elgamalVars, proofVars, hexVars>>

GetPointAffine ==
  /\ pc = "haskey"
  /\ affine' = get_point_affine(pk)
  /\ pc' = "affine"
  /\ UNCHANGED <<keyVars, elgamalVars, proofVars, hexStr, hexIn, parsed>>

GetPointHexString ==
  /\ pc = "haskey"
  /\ hexStr' = get_point_hex_string(pk)
  /\ pc' = "serialized"
  /\ UNCHANGED <<keyVars, elgamalVars, proofVars, affine, hexIn, parsed>>

\* PublicKey::from_hex_string(pk_hex), on what get_point_hex_string returned
FromHexStringBack ==
  /\ pc = "serialized"
  /\ hexStr.kind = "Ok"
  /\ hexIn' = hexStr.value
  /\ parsed' = from_hex_string(hexStr.value)
  /\ pc' = "roundtrip"
  /\ UNCHANGED <<keyVars, elgamalVars, proofVars, hexStr, affine>>

\* PublicKey::from_hex_string(hex_coords), on strings from outside
FromHexString ==
  /\ pc = "start"
  /\ \E x, y \in HexInputs :
       /\ hexIn' = <<x, y>>
       /\ parsed' = from_hex_string(<<x, y>>)
  /\ pc' = "parsed"
  /\ UNCHANGED <<keyVars, elgamalVars, proofVars, hexStr, affine>>

NextHex ==
  \/ FromPoint
  \/ GetPointAffine
  \/ GetPointHexString
  \/ FromHexStringBack
  \/ FromHexString

SpecHex == Init /\ [][NextHex]_vars

(***************************************************************************)
(* Properties                                                              *)
(***************************************************************************)
\* C2: decrypting an encryption under the matching key gives the plaintext
\* back, whatever the key, the plaintext and the randomness
RoundTrip == (pc = "done" /\ op = "none") => decrypted = ptxt1

RoundTripWitness ==
  /\ pc = "done"
  /\ op = "none"
  /\ sk # 0
  /\ ptxt1 # G1Zero
  /\ ctxt1.points[1] # G1Zero
  /\ decrypted = ptxt1

\* C3: the component-wise sum of two ciphertexts under one key decrypts to
\* the sum of the two plaintexts
AdditiveHomomorphism ==
  (pc = "done" /\ op = "add") => decrypted = G1Add(ptxt1, ptxt2)

AdditiveHomomorphismWitness ==
  /\ pc = "done"
  /\ op = "add"
  /\ sk # 0
  /\ ptxt1 # G1Zero
  /\ ptxt2 # G1Zero
  /\ ctxt1.points[1] # ctxt2.points[1]
  /\ decrypted = G1Add(ptxt1, ptxt2)

\* C4: a ciphertext with both components scaled by c decrypts to the
\* plaintext scaled by c, for c = 0 too
ScalarHomomorphism ==
  (pc = "done" /\ op = "mul") => decrypted = G1Mul(ptxt1, scalar)

ScalarHomomorphismWitness ==
  /\ pc = "done"
  /\ op = "mul"
  /\ sk # 0
  /\ scalar > 1
  /\ ptxt1 # G1Zero
  /\ ctxt1.points[1] # G1Zero
  /\ decrypted = G1Mul(ptxt1, scalar)

\* the verifier was handed the proof with the key and the decryption it was
\* made for
HonestCheck == pc = "verified" /\ vargs.pk = pk /\ vargs.message = decrypted

\* it was handed another plaintext
WrongPlaintextCheck == pc = "verified" /\ vargs.pk = pk /\ vargs.message # decrypted

\* it was handed the public key of another secret key
WrongKeyCheck == pc = "verified" /\ vargs.pk # pk /\ vargs.message = decrypted

\* the challenge the prover derived
ProverChallenge ==
  Fr_from_slice(oracle[verify_hash_input(pk, proof.value, combined, decrypted)])

\* the challenge the verifier derived
VerifierChallenge ==
  Fr_from_slice(oracle[verify_hash_input(vargs.pk, vargs.proof, vargs.ciphertext,
                                         vargs.message)])

\* C1: a proof made for decrypt(sk, c) verifies under public_key(sk), for
\* every blinding scalar and every ciphertext the prover accepts
HonestProofVerifies == HonestCheck => vresults = <<"Ok">>

HonestProofVerifiesWitness ==
  /\ HonestCheck
  /\ sk > 1
  /\ ptxt1 # G1Zero
  /\ ProverChallenge # 0
  /\ vresults = <<"Ok">>

\* C5 as claimed: the proof is rejected for every other plaintext
WrongPlaintextRejected == WrongPlaintextCheck => vresults # <<"Ok">>

\* C5 as amended: the proof is rejected for every other plaintext unless the
\* challenge the prover derived and the challenge the verifier derives for the
\* other plaintext are both zero, and then it is accepted
WrongPlaintextRejectedUnlessZeroChallenges ==
  WrongPlaintextCheck =>
    (vresults = <<"Ok">>
       <=> /\ vargs.message # G1Zero
           /\ ProverChallenge = 0
           /\ VerifierChallenge = 0)

WrongPlaintextWitness ==
  /\ WrongPlaintextCheck
  /\ vargs.message # G1Zero
  /\ ProverChallenge = VerifierChallenge
  /\ ProverChallenge # 0
  /\ vresults = <<"VerificationError">>

\* C6 as claimed: the proof is rejected under every other public key
WrongKeyRejected == WrongKeyCheck => vresults # <<"Ok">>

\* C6 as amended: the proof is rejected under the public key of every other
\* secret key unless the challenge the prover derived and the challenge the
\* verifier derives under the other key are both zero, and then it is accepted
WrongKeyRejectedUnlessZeroChallenges ==
  WrongKeyCheck =>
    (vresults = <<"Ok">>
       <=> /\ vargs.pk # G1Zero
           /\ ProverChallenge = 0
           /\ VerifierChallenge = 0)

WrongKeyWitness ==
  /\ WrongKeyCheck
  /\ vargs.pk # G1Zero
  /\ ProverChallenge = VerifierChallenge
  /\ ProverChallenge # 0
  /\ vresults = <<"VerificationError">>

\* the verifier's two equations for the challenge e, on the arguments it holds
EquationsHold(e) ==
  /\ G1Mul(G1One, vargs.proof[2])
       = G1Add(vargs.proof[1][1], G1Mul(vargs.pk, e))
  /\ G1Mul(vargs.ciphertext.points[1], vargs.proof[2])
       = G1Add(vargs.proof[1][2],
               G1Mul(G1Sub(vargs.ciphertext.points[2], vargs.message), e))

\* the affine coordinates of message, ephemeral, masked, A1, A2, generator,
\* public key, in this order
Transcript ==
  LET pts == << vargs.message, vargs.ciphertext.points[1],
                vargs.ciphertext.points[2], vargs.proof[1][1],
                vargs.proof[1][2], G1One, vargs.pk >>
  IN  [i \in 1 .. 14 |-> IF i % 2 = 1 THEN pts[(i + 1) \div 2].x
                                      ELSE pts[i \div 2].y]

\* C10: every call of the verifier returns the conversion error, the hash
\* not evaluated, when one of its six points is the identity; else it hashes
\* the transcript in the stated order, once, and returns Ok exactly when both
\* equations hold for that challenge, VerificationError when not; calls on
\* the same arguments return the same
VerifierDecision ==
  \A i \in 1 .. Len(vresults) :
    IF G1Zero \in { vargs.message, vargs.ciphertext.points[1],
                    vargs.ciphertext.points[2], vargs.proof[1][1],
                    vargs.proof[1][2], vargs.pk }
      THEN vresults[i] = "AffineConversionFailure" /\ oracle = NoOracle
      ELSE /\ DOMAIN oracle = {Transcript}
           /\ vresults[i] = IF EquationsHold(oracle[Transcript] % GroupOrder)
                              THEN "Ok"
                              ELSE "VerificationError"

VerifierDecisionWitness ==
  /\ vresults = <<"Ok", "Ok">>
  /\ DOMAIN oracle = {Transcript}
  /\ oracle[Transcript] % GroupOrder # 0
  /\ vargs.pk # G1One

\* the pair of strings is two coordinates in the exchange format
IsHexPair(pair) ==
  /\ Len(pair) = 2
  /\ \A i \in 1 .. 2 :
       /\ Len(pair[i]) = 66
       /\ SubSeq(pair[i], 1, 2) = Prefix0x
       /\ \A j \in 3 .. 66 : IsHexChar(pair[i][j])

HexRoundTrip ==
  /\ pc = "serialized" => (hexStr.kind = "Ok" /\ IsHexPair(hexStr.value))
  /\ pc = "roundtrip" => (parsed.kind = "Ok" /\ parsed.value = pk)

\* C7 as claimed: every public key serializes to a pair of 0x-prefixed
\* 64-digit strings, which parses back to an equal public key
CoordinateRoundTripOfEveryKey == pc \in {"serialized", "roundtrip"} => HexRoundTrip

\* C7 as amended: every public key but the identity does
CoordinateRoundTrip ==
  (pc \in {"serialized", "roundtrip"} /\ pk # G1Zero) => HexRoundTrip

CoordinateRoundTripWitness ==
  /\ pc = "roundtrip"
  /\ pk = G1Add(G1One, G1One)
  /\ parsed.kind = "Ok"
  /\ parsed.value = pk

\* a coordinate string lacking the prefix or not 66 characters long
Malformed(str) == Len(str) # 66 \/ SubSeq(str, 1, 2) # Prefix0x

\* C8: from_hex_string answers every malformed pair with the prefix or the
\* length error, before decoding anything; it neither accepts nor panics
MalformedInputRejected ==
  (pc = "parsed" /\ (Malformed(hexIn[1]) \/ Malformed(hexIn[2])))
    => /\ parsed.kind = "Err"
       /\ parsed.error \in {"IncorrectHexString", "InvalidHexLength"}

\* C9: for the identity, get_point_affine and get_point_hex_string return an
\* error; they do not panic
IdentityKeyExplicitError ==
  pk = G1Zero =>
    /\ pc = "affine" => affine.kind = "Err"
    /\ pc = "serialized" => hexStr.kind = "Err"
====
